---- MODULE Spec2Model ----
(***************************************************************************)
(* LocalAgentCore.DocumentAnalyzer: the orchestrator of the legal document *)
(* analysis pipeline (packages/LocalAgentCore/document_analyzer.py), one   *)
(* analyzer object shared by several analyze() coroutines that run on one  *)
(* asyncio event loop.                                                     *)
(*                                                                         *)
(* A text is a sequence of characters: "a" is a one-byte word character,   *)
(* "sp" a one-byte whitespace character, "e2" a two-byte (UTF-8) word      *)
(* character.  A metadata dict is a set of <<key, value>> pairs; None and  *)
(* the empty dict are both {} (the code only ever tests `if metadata`).    *)
(* Confidence scores are exact fractions [num, den] in lowest terms.       *)
(***************************************************************************)
EXTENDS Integers, Sequences, FiniteSets, TLC

\* ------------------------------------------------------------------ bounds
MaxCalls == 2
MaxIssues == 1
MaxWords == 7
MaxLines == 3
MaxScored == 2
MaxGiven == 3
MaxClears == 1
MaxRequests == 2

Calls == 1..MaxCalls

\* config["max_document_size"], the byte ceiling of validate_input
max_document_size == 3

\* the calls the model makes: analyze(document_text, metadata)
Inputs ==
    { << <<>>, {} >>,
      << <<"sp">>, {<<"document_id", "d1">>} >>,
      << <<"e2", "e2">>, {<<"document_id", "d2">>} >>,
      << <<"a">>, {} >>,
      << <<"a", "sp", "a">>, {<<"document_id", "d1">>} >>,
      << <<"a", "sp", "a">>,
         {<<"document_id", "d2">>,
          <<"enable_contradiction_detection", "False">>} >> }

Configs ==
    [ enable_classification : BOOLEAN,
      enable_contradiction_detection : BOOLEAN,
      enable_remedy_generation : BOOLEAN,
      parallel_processing : BOOLEAN,
      enable_caching : BOOLEAN ]

VARIABLES
    cfg,            \* the analyzer's configuration flags (set in __init__)
    pc,             \* per call: idle, scheduled, gather, returned, raised, cancelled
    text,           \* per call: document_text
    metadata,       \* per call: metadata
    ready,          \* the event loop's FIFO queue of runnable tasks <<call, task>>
    gathered,       \* per call: what asyncio.gather has collected so far
    heap,           \* AnalysisResult objects, by identity (the call that created it)
    cache,          \* self._analysis_cache: a set of <<key, object identity>>
    ret,            \* per call: identity of the object returned (0: none)
    err,            \* per call: the exception that left analyze()
    failed_result,  \* per call: the local `result` the except block builds
    trace,          \* per call: the component and cache events, in order
    before,         \* per call: the calls that had returned when it started,
                    \* in the order of their return
    returned,       \* the calls that have returned, in the order of return
    service         \* per call: what process_document, through which the call
                    \* is made, writes to the DocumentRecord and answers, and
                    \* whether its processing_timeout ran out before the end
VARIABLES
    sample,         \* the input of a component pass run on its own
    output          \* << >>, or << what the pass returned >>
VARIABLES
    clears,         \* the number of clear_cache() calls made so far
    document,       \* the DocumentRecord row that process_document works on
    request         \* per process_document call: where it is, what its select
                    \* read, what it last wrote to the row, and its answer

\* the state of the analyzer and of its calls
calls == << cfg, pc, text, metadata, ready, gathered, heap, cache, ret, err,
            failed_result, trace, before, returned, service >>

\* the state outside the analyze() calls and the passes run on their own
aside == << clears, document, request >>

vars == << calls, sample, output, aside >>

\* ------------------------------------------------------------ small helpers
RECURSIVE GCD(_, _)
GCD(a, b) == IF b = 0 THEN a ELSE GCD(b, a % b)

\* the float n/d
Frac(n, d) == IF n = 0 THEN [num |-> 0, den |-> 1]
              ELSE [num |-> n \div GCD(n, d), den |-> d \div GCD(n, d)]

RECURSIVE SumSeq(_)
SumSeq(s) == IF s = <<>> THEN 0 ELSE Head(s) + SumSeq(Tail(s))

\* dict.get(key, default)
DictGet(d, k, default) ==
    IF \E p \in d : p[1] = k THEN (CHOOSE p \in d : p[1] = k)[2] ELSE default

\* -------------------------------------------------------- BaseAnalyzer
CharBytes(ch) == IF ch = "e2" THEN 2 ELSE 1

\* len(document_text.encode('utf-8'))
ByteLen(t) == SumSeq([i \in 1..Len(t) |-> CharBytes(t[i])])

\* not document_text or not document_text.strip()
IsBlank(t) == \A i \in 1..Len(t) : t[i] = "sp"

\* len(document_text.split())
WordCount(t) ==
    Cardinality({ i \in 1..Len(t) : t[i] # "sp" /\ (i = 1 \/ t[i-1] = "sp") })

\* validate_input comparing len(document_text), the number of characters,
\* with the byte ceiling
validate_input_CountsCharacters(t) ==
    IF IsBlank(t) THEN "Document text cannot be empty"
    ELSE IF Len(t) > max_document_size
         THEN "Document size exceeds maximum limit"
         ELSE "ok"

\* validate_input: "ok", or the message of the ValueError it raises
validate_input(t) ==
    IF IsBlank(t) THEN "Document text cannot be empty"
    ELSE IF ByteLen(t) > max_document_size
         THEN "Document size exceeds maximum limit"
         ELSE "ok"

NoClassification == [document_type |-> "None", confidence |-> 0]

NoMetadata ==
    [ cached_result |-> FALSE,
      analysis_components |-> {},
      integration_method |-> "",
      total_issues_found |-> 0,
      total_remedies_suggested |-> 0,
      component_performance |-> {} ]

\* _create_base_result: the dataclass defaults of AnalysisResult
_create_base_result(document_id) ==
    [ document_id |-> document_id,
      classification |-> NoClassification,
      issues |-> <<>>,
      remedies |-> <<>>,
      confidence_score |-> Frac(0, 1),
      tokens_analyzed |-> 0,
      status |-> "completed",
      error_message |-> "",
      completed_at |-> FALSE,
      metadata |-> NoMetadata ]

\* ------------------------------------------------- component analyzers
Components == {"classification", "contradiction_detection", "remedy_generation"}

\* an entry of analysis_results: the key is absent, or maps to None
\* (the component raised), or maps to the component's AnalysisResult
Absent ==
    [ state |-> "absent", classification |-> NoClassification,
      issues |-> <<>>, remedies |-> <<>>, confidence |-> 0 ]

NoneResult == [Absent EXCEPT !.state = "failed"]

Pending == [Absent EXCEPT !.state = "pending"]

\* a LegalIssue created by the detector during call c (ids are fresh uuids)
Issue(c, i) ==
    [ id |-> <<c, i>>, type |-> "contradiction", severity |-> "high",
      title |-> "Conflicting Obligations" ]

\* The documents of the model: a one-word document is one that no
\* classification rule matches and in which the detector finds nothing; a
\* longer one is a contract in which the detector finds MaxIssues conflicts.
BestScore(t) == IF Len(t) > 1 THEN 80 ELSE 0

IssuesFound(t) == IF Len(t) > 1 THEN MaxIssues ELSE 0

\* InstrumentClassifier.analyze: raises (the language model or the
\* component's own validate_input fails), or returns the classification,
\* whose document_type is unknown when the best score is below the threshold
ClassifierOutcomes(t) ==
    { NoneResult,
      [Absent EXCEPT !.state = "ok",
                     !.classification =
                         [ document_type |->
                               IF BestScore(t) = 0
                               THEN "unknown" ELSE "contract",
                           confidence |-> BestScore(t) ],
                     !.confidence = BestScore(t)] }

\* ContradictionDetector.analyze: raises, or returns the issues it found,
\* with confidence 0.95 when there is none and else the severity-weighted
\* average 0.9 scaled by 0.7 + 0.3 * complexity
DetectorOutcomes(c, t) ==
    { NoneResult,
      [Absent EXCEPT !.state = "ok",
                     !.issues = [i \in 1..IssuesFound(t) |-> Issue(c, i)],
                     !.confidence = IF IssuesFound(t) = 0 THEN 95 ELSE 63] }

\* ------------------------------------------------------ DocumentAnalyzer
\* json.dumps(cache_metadata, sort_keys=True), as a sequence of characters
json_dumps(d) ==
    <<"{">>
    \o (IF \E p \in d : p[1] = "document_type"
        THEN <<"document_type", DictGet(d, "document_type", "")>> ELSE <<>>)
    \o (IF \E p \in d : p[1] = "jurisdiction"
        THEN <<"jurisdiction", DictGet(d, "jurisdiction", "")>> ELSE <<>>)
    \o (IF \E p \in d : p[1] = "version"
        THEN <<"version", DictGet(d, "version", "")>> ELSE <<>>)
    \o <<"}">>

\* _generate_cache_key: the md5 digest is taken to be collision-free, so the
\* key is the hashed content itself
_generate_cache_key(t, md) ==
    IF md # {}
    THEN t \o json_dumps({ p \in md :
                 p[1] \in {"document_type", "jurisdiction", "version"} })
    ELSE t

\* weights, in tenths
Weight(component) ==
    CASE component = "classification" -> 3
      [] component = "contradiction_detection" -> 4
      [] component = "remedy_generation" -> 3

\* `if result and result.confidence_score > 0`
Counted(results, n) == results[n].state = "ok" /\ results[n].confidence > 0

\* _calculate_overall_confidence without the 0.5 default of line 420
_calculate_overall_confidence_NoDefault(results) ==
    LET W(n) == IF Counted(results, n) THEN Weight(n) ELSE 0
        total_weight ==
            W("classification") + W("contradiction_detection")
            + W("remedy_generation")
        weighted_confidence ==
            results["classification"].confidence * W("classification")
            + results["contradiction_detection"].confidence
              * W("contradiction_detection")
            + results["remedy_generation"].confidence * W("remedy_generation")
    IN  IF total_weight > 0
        THEN Frac(weighted_confidence, 100 * total_weight)
        ELSE Frac(0, 1)

_calculate_overall_confidence(results) ==
    LET W(n) == IF Counted(results, n) THEN Weight(n) ELSE 0
        total_weight ==
            W("classification") + W("contradiction_detection")
            + W("remedy_generation")
        weighted_confidence ==
            results["classification"].confidence * W("classification")
            + results["contradiction_detection"].confidence
              * W("contradiction_detection")
            + results["remedy_generation"].confidence * W("remedy_generation")
    IN  IF total_weight > 0
        THEN Frac(weighted_confidence, 100 * total_weight)
        ELSE Frac(1, 2)

\* `if analysis_results.get(name)`: the entry is there and is not None
Got(results, n) == results[n].state = "ok"

\* _integrate_analysis_results (the confidence updates of lines 234-245 are
\* overwritten by line 253)
_integrate_analysis_results(base_result, results) ==
    LET issues ==
            base_result.issues
            \o (IF Got(results, "contradiction_detection")
                THEN results["contradiction_detection"].issues ELSE <<>>)
        remedies ==
            base_result.remedies
            \o (IF Got(results, "remedy_generation")
                THEN results["remedy_generation"].remedies ELSE <<>>)
    IN  [ base_result EXCEPT
            !.classification =
                IF Got(results, "classification")
                THEN results["classification"].classification
                ELSE base_result.classification,
            !.issues = issues,
            !.remedies = remedies,
            !.confidence_score = _calculate_overall_confidence(results),
            !.metadata =
                [ @ EXCEPT
                    !.analysis_components =
                        { n \in Components : Got(results, n) },
                    !.integration_method =
                        IF cfg.parallel_processing
                        THEN "parallel" ELSE "sequential",
                    !.total_issues_found = Len(issues),
                    !.total_remedies_suggested = Len(remedies) ] ]

\* _generate_analysis_report: the per-component status of the report (its
\* summaries are text derived from the integrated lists)
_generate_analysis_report(integrated_result, results) ==
    [ integrated_result EXCEPT
        !.metadata.component_performance =
            { <<n, IF Got(results, n) THEN "success" ELSE "failed">> :
                n \in { m \in Components : results[m].state # "absent" } } ]

\* ------------------------------------------------------------ the state
NoError == [type |-> "", error_code |-> "", cause |-> "", message |-> ""]

NoResults ==
    [ classification |-> Absent, contradiction_detection |-> Absent,
      remedy_generation |-> Absent ]

Event(ev, comp, seed) == [ev |-> ev, comp |-> comp, seed |-> seed]

CacheHas(key) == \E e \in cache : e[1] = key

CacheGet(key) == (CHOOSE e \in cache : e[1] = key)[2]

\* the cache insert of line 129 left out
CachePut_NotStored(key, obj) == cache

\* self._analysis_cache[cache_key] = obj
CachePut(key, obj) == { e \in cache : e[1] # key } \cup { <<key, obj>> }

\* lines 128-129 without the test of enable_caching
Store_Always(key, obj) == CachePut(key, obj)

\* lines 128-129: the result is cached if caching is enabled
Store(key, obj) == IF cfg.enable_caching THEN CachePut(key, obj) ELSE cache

\* process_document: the DocumentRecord's processing_status and error_message
\* (lines 176-180, 206-212, 220-226, 239-245), the HTTP status of the answer
\* (200, or that of the HTTPException of lines 229-232, 248-251), and
\* budget_exceeded: more than processing_timeout seconds passed before the end
Answered(processing_status, error_message, status_code, budget_exceeded) ==
    [ processing_status |-> processing_status,
      error_message |-> error_message,
      status_code |-> status_code,
      budget_exceeded |-> budget_exceeded ]

\* the record of an uploaded document (line 121)
Uploaded == Answered("uploaded", "", 0, FALSE)

\* process_document after analyze returned `result` (lines 200-216):
\* _store_analysis_results serializes the classification with
\* json.dumps(asdict(...)) (line 460), which raises TypeError on its
\* DocumentType member, and the handler of lines 235-251 records the failure;
\* a result without classification is stored and the record set to COMPLETED
AfterStorage(result, budget_exceeded) ==
    IF result.classification # NoClassification
    THEN Answered("failed", "Analysis failed: not JSON serializable", 500,
                  budget_exceeded)
    ELSE Answered("completed", "", 200, budget_exceeded)

Alloc(obj, value) ==
    [ o \in DOMAIN heap \cup {obj} |-> IF o = obj THEN value ELSE heap[o] ]


\* ------------------------------------------- ContradictionDetector passes
\* A document here is a sequence of words separated by single blanks, so a
\* position is a word index and a regex over the text is a scan over words.

\* the modal verbs of obligation_patterns, in the order of the list
obligation_patterns ==
    << [modal |-> "shall", category |-> "obligation"],
       [modal |-> "must", category |-> "requirement"],
       [modal |-> "will", category |-> "commitment"] >>

\* r'\b(\w+)\s+<modal>\s+(not\s+)?(\w+)' tried at word i: the optional group
\* is taken when a word follows the "not", else "not" itself is the action
MatchAt(t, modal, i) ==
    IF i + 2 <= Len(t) /\ t[i + 1] = modal
    THEN IF i + 3 <= Len(t) /\ t[i + 2] = "not"
         THEN << [ start |-> i, end |-> i + 3, entity |-> t[i],
                   negation |-> TRUE, action |-> t[i + 3] ] >>
         ELSE << [ start |-> i, end |-> i + 2, entity |-> t[i],
                   negation |-> FALSE, action |-> t[i + 2] ] >>
    ELSE <<>>

\* re.finditer: the leftmost match from word i on, then on from its end
RECURSIVE finditer(_, _, _)
finditer(t, modal, i) ==
    IF i > Len(t) THEN <<>>
    ELSE IF MatchAt(t, modal, i) # <<>>
         THEN MatchAt(t, modal, i)
              \o finditer(t, modal, MatchAt(t, modal, i)[1].end + 1)
         ELSE finditer(t, modal, i + 1)

\* the matches in the order the two loops of lines 239-241 visit them, each
\* with the category of its pattern
ObligationMatches(t) ==
    LET Of(p) ==
            LET ms == finditer(t, obligation_patterns[p].modal, 1)
            IN  [ k \in 1..Len(ms) |->
                    [ match |-> ms[k],
                      category |-> obligation_patterns[p].category ] ]
    IN  Of(1) \o Of(2) \o Of(3)

\* f"{entity}_{action}"
ObligationKey(m) == << m.entity, m.action >>

\* the body of the inner loop, lines 242-264, from match k on: obligations is
\* the dict built so far (a set of <<key, negation, span>>), conflicts the list
RECURSIVE TermLoop(_, _, _, _)
TermLoop(ms, k, obligations, conflicts) ==
    IF k > Len(ms) THEN conflicts
    ELSE LET m == ms[k].match
             known == { o \in obligations : o[1] = ObligationKey(m) }
         IN  IF known # {}
             THEN IF (CHOOSE o \in known : TRUE)[2] # m.negation
                  THEN TermLoop(ms, k + 1, obligations,
                           Append(conflicts,
                               [ type |-> "contradiction",
                                 severity |-> "high",
                                 title |-> << "Conflicting", ms[k].category,
                                              "for", m.entity >>,
                                 location |-> [ start |-> m.start,
                                                end |-> m.end ],
                                 confidence |-> 90 ]))
                  ELSE TermLoop(ms, k + 1, obligations, conflicts)
             ELSE TermLoop(ms, k + 1,
                      obligations
                      \cup { << ObligationKey(m), m.negation,
                                << m.start, m.end >> >> },
                      conflicts)

\* ContradictionDetector._detect_term_conflicts
_detect_term_conflicts(t) == TermLoop(ObligationMatches(t), 1, {}, <<>>)


\* For the cross-reference pass a document is a sequence of lines, a line a
\* sequence of words separated by single blanks.
RECURSIVE Flatten(_)
Flatten(doc) == IF doc = <<>> THEN <<>> ELSE Head(doc) \o Flatten(Tail(doc))

\* the words \d+(?:\.\d+)* matches in full
SectionNumbers == {"1", "2"}

\* r'Section\s+(\d+(?:\.\d+)*)': the word Section, any white space (blanks or
\* line ends), a number; one entry per match, in the order of the text
SectionRefs(doc) ==
    LET w == Flatten(doc)
        at == { i \in 1..(Len(w) - 1) :
                    w[i] = "section" /\ w[i + 1] \in SectionNumbers }
        RECURSIVE From(_)
        From(i) == IF i >= Len(w) THEN <<>>
                   ELSE (IF i \in at THEN << w[i + 1] >> ELSE <<>>)
                        \o From(i + 1)
    IN  From(1)

\* r'^(\d+(?:\.\d+)*)\s+' with re.MULTILINE: a line that begins with a number
\* after which white space follows, a blank or the end of a line that is not
\* the end of the text
actual_sections(doc) ==
    { doc[l][1] : l \in { k \in 1..Len(doc) :
                              /\ doc[k] # <<>>
                              /\ doc[k][1] \in SectionNumbers
                              /\ (Len(doc[k]) >= 2 \/ k < Len(doc)) } }

referenced_sections(doc) ==
    { SectionRefs(doc)[k] : k \in 1..Len(SectionRefs(doc)) }

ReferenceError(ref) ==
    [ type |-> "reference_error", severity |-> "medium",
      title |-> << "Broken Section Reference:", ref >>,
      confidence |-> 95 ]

\* the orders in which Python may iterate over the set S
Orders(S) ==
    { o \in [1..Cardinality(S) -> S] : \A x \in S : \E k \in DOMAIN o : o[k] = x }

\* the pass reporting every reference it meets instead of every number
_detect_reference_errors_PerMatch(doc) ==
    { SelectSeq([ k \in 1..Len(SectionRefs(doc)) |->
                      ReferenceError(SectionRefs(doc)[k]) ],
                LAMBDA e : e.title[2] \notin actual_sections(doc)) }

\* ContradictionDetector._detect_reference_errors: the lists it may return,
\* one issue per broken number, in the iteration order of the set broken_refs
_detect_reference_errors(doc) ==
    { [ k \in 1..Len(o) |-> ReferenceError(o[k]) ] :
        o \in Orders(referenced_sections(doc) \ actual_sections(doc)) }


\* severity_weights, in tenths (0.5 for a severity that is not in the table)
severity_weights(severity) ==
    CASE severity = "critical" -> 10
      [] severity = "high" -> 8
      [] severity = "medium" -> 6
      [] severity = "low" -> 4
      [] severity = "info" -> 2
      [] OTHER -> 5

\* a < b, a * b and min(a, b) of two fractions
Less(a, b) == a.num * b.den < b.num * a.den

Times(a, b) == Frac(a.num * b.num, a.den * b.den)

Min(a, b) == IF Less(b, a) THEN b ELSE a

\* 0.7 + 0.3 * min(1.0, token_count / 1000)
ComplexityScale(token_count) ==
    Frac(7000 + 3 * (IF token_count > 1000 THEN 1000 ELSE token_count), 10000)

\* the severity-weighted average of the issue confidences (in hundredths)
WeightedAverage(contradictions) ==
    LET n == Len(contradictions)
        total_weight ==
            SumSeq([ k \in 1..n |-> severity_weights(contradictions[k].severity) ])
        weighted_confidence ==
            SumSeq([ k \in 1..n |->
                       contradictions[k].confidence
                       * severity_weights(contradictions[k].severity) ])
    IN  IF total_weight > 0
        THEN Frac(weighted_confidence, 100 * total_weight)
        ELSE Frac(1, 2)

\* _calculate_confidence_score without the min(0.99, ...) of line 449
_calculate_confidence_score_Uncapped(contradictions, token_count) ==
    IF contradictions = <<>>
    THEN Frac(95, 100)
    ELSE Times(WeightedAverage(contradictions), ComplexityScale(token_count))

\* ContradictionDetector._calculate_confidence_score
_calculate_confidence_score(contradictions, token_count) ==
    IF contradictions = <<>>
    THEN Frac(95, 100)
    ELSE Min(Frac(99, 100),
             Times(WeightedAverage(contradictions),
                   ComplexityScale(token_count)))


\* ------------------------------------------------------ InstrumentClassifier
\* _classification_rules in the order of their registration, each with the
\* number of its keywords, phrases and patterns, the number of signatures
\* _document_signatures holds for the type (0: none), and its
\* confidence_threshold in tenths
_classification_rules ==
    << [ doc_type |-> "contract", keywords |-> 7, phrases |-> 4,
         patterns |-> 3, signatures |-> 6, confidence_threshold |-> 7 ],
       [ doc_type |-> "agreement", keywords |-> 6, phrases |-> 3,
         patterns |-> 2, signatures |-> 0, confidence_threshold |-> 6 ],
       [ doc_type |-> "affidavit", keywords |-> 7, phrases |-> 3,
         patterns |-> 3, signatures |-> 5, confidence_threshold |-> 8 ],
       [ doc_type |-> "letter", keywords |-> 5, phrases |-> 4,
         patterns |-> 3, signatures |-> 5, confidence_threshold |-> 5 ],
       [ doc_type |-> "motion", keywords |-> 8, phrases |-> 4,
         patterns |-> 4, signatures |-> 6, confidence_threshold |-> 8 ],
       [ doc_type |-> "brief", keywords |-> 8, phrases |-> 3,
         patterns |-> 2, signatures |-> 0, confidence_threshold |-> 7 ],
       [ doc_type |-> "complaint", keywords |-> 7, phrases |-> 4,
         patterns |-> 3, signatures |-> 5, confidence_threshold |-> 8 ] >>

Plus(a, b) == Frac(a.num * b.den + b.num * a.den, a.den * b.den)

\* found / len(list), 0.0 for an empty list
Ratio(found, length) == IF length = 0 THEN Frac(0, 1) ELSE Frac(found, length)

\* _score_patterns: min(1.0, total_matches / (len(patterns) * 2))
_score_patterns(total_matches, patterns) ==
    Min(Frac(1, 1), Frac(total_matches, patterns * 2))

\* the score of one type, lines 245-264: what the text holds of the rule's
\* lists is given by f, the numbers of keywords, phrases and signatures found
\* and the number of pattern matches
TypeScore(rules, f) ==
    Min(Frac(1, 1),
        Plus(Plus(Times(Ratio(f.keywords, rules.keywords), Frac(3, 10)),
                  Times(Ratio(f.phrases, rules.phrases), Frac(3, 10))),
             Plus(Times(_score_patterns(f.patterns, rules.patterns),
                        Frac(2, 10)),
                  Times(Ratio(f.signatures, rules.signatures),
                        Frac(2, 10)))))

\* max() keeping the last of the keys with the highest score
BestType_LastWins(type_scores) ==
    CHOOSE i \in DOMAIN type_scores :
        /\ \A j \in DOMAIN type_scores : ~Less(type_scores[i], type_scores[j])
        /\ \A j \in (i + 1)..Len(type_scores) :
               Less(type_scores[j], type_scores[i])

\* max(type_scores, key=type_scores.get): the first key, in the insertion
\* order of the dict, whose score no other exceeds
BestType(type_scores) ==
    CHOOSE i \in DOMAIN type_scores :
        /\ \A j \in DOMAIN type_scores : ~Less(type_scores[i], type_scores[j])
        /\ \A j \in 1..(i - 1) : Less(type_scores[j], type_scores[i])

\* line 275 without the threshold test
Threshold_Ignored(best_type, best_score) ==
    _classification_rules[best_type].doc_type

\* line 275: best_type if best_score >= confidence_threshold else UNKNOWN
Threshold(best_type, best_score) ==
    IF ~Less(best_score,
             Frac(_classification_rules[best_type].confidence_threshold, 10))
    THEN _classification_rules[best_type].doc_type
    ELSE "unknown"

\* InstrumentClassifier._classify_document on a text with the features
\* features[i] for the i-th rule set
_classify_document(features) ==
    LET type_scores ==
            [ i \in DOMAIN _classification_rules |->
                TypeScore(_classification_rules[i], features[i]) ]
        best_type == BestType(type_scores)
        best_score == type_scores[best_type]
    IN  [ document_type |-> Threshold(best_type, best_score),
          confidence |-> best_score,
          all_scores |-> type_scores ]

\* ------------------------------------------------------- RemedyCompiler
\* A document, for the compiler, is the set of clause phrases that occur in
\* it and the number of its lines; an issue is its id, type, severity and
\* title; a remedy is its title, priority, applicable_issues and the
\* template_id of its metadata ("" when the metadata has no such key).

\* self._remedy_templates, in the insertion order of the dict (lines 85-235)
_remedy_templates ==
    << [ id |-> "contradiction_clarification",
         title |-> "Clarify Contradictory Terms",
         applicable_issues |-> {"contradiction", "ambiguity"},
         priority |-> "high" ],
       [ id |-> "missing_clause_addition",
         title |-> "Add Essential Missing Clauses",
         applicable_issues |-> {"missing_clause", "compliance_issue"},
         priority |-> "high" ],
       [ id |-> "compliance_update",
         title |-> "Update for Regulatory Compliance",
         applicable_issues |-> {"compliance_issue"},
         priority |-> "critical" ],
       [ id |-> "risk_mitigation",
         title |-> "Add Risk Mitigation Provisions",
         applicable_issues |-> {"risk_factor"},
         priority |-> "high" ],
       [ id |-> "reference_correction",
         title |-> "Correct Cross-References",
         applicable_issues |-> {"reference_error"},
         priority |-> "medium" ],
       [ id |-> "format_standardization",
         title |-> "Standardize Document Format",
         applicable_issues |-> {"formatting_error"},
         priority |-> "low" ] >>

\* the keys of self._risk_mitigation_strategies (lines 309-344)
_risk_mitigation_strategies ==
    { "contradiction", "ambiguity", "missing_clause", "compliance_issue",
      "risk_factor" }

\* essential_clauses of _detect_basic_issues (lines 426-431): the title-cased
\* clause name and the alternatives of the pattern
essential_clauses ==
    << [ clause_name |-> "Governing Law",
         pattern |-> {"governing law", "applicable law", "laws of"} ],
       [ clause_name |-> "Dispute Resolution",
         pattern |-> {"arbitration", "mediation", "dispute"} ],
       [ clause_name |-> "Termination",
         pattern |-> {"terminate", "termination", "end this agreement"} ],
       [ clause_name |-> "Force Majeure",
         pattern |-> {"force majeure", "act of god", "beyond control"} ] >>

\* re.search(pattern, document_text, re.IGNORECASE) of line 434
re_search(pattern, doc) == doc.phrases \cap pattern # {}

\* _detect_basic_issues (lines 421-443); the ids are fresh uuids
_detect_basic_issues(doc) ==
    LET missing == SelectSeq(essential_clauses,
                             LAMBDA cl : ~re_search(cl.pattern, doc))
    IN  [ i \in 1..Len(missing) |->
            [ id |-> <<"basic", i>>, type |-> "missing_clause",
              severity |-> "medium",
              title |-> "Missing " \o missing[i].clause_name \o " Clause" ] ]

\* _create_remedy_from_template (lines 467-503)
_create_remedy_from_template(template, issue) ==
    [ title |-> template.title, priority |-> template.priority,
      applicable_issues |-> << issue.id >>, template_id |-> template.id ]

\* _generate_issue_specific_remedies (lines 505-525)
_generate_issue_specific_remedies(issue) ==
    IF issue.type \in _risk_mitigation_strategies
    THEN << [ title |-> "Mitigate " \o issue.title,
              priority |-> issue.severity,
              applicable_issues |-> << issue.id >>, template_id |-> "" ] >>
    ELSE <<>>

\* _generate_remedies_for_issue (lines 445-465)
_generate_remedies_for_issue(issue) ==
    LET applicable_templates ==
            SelectSeq(_remedy_templates,
                      LAMBDA template : issue.type \in template.applicable_issues)
    IN  [ i \in 1..Len(applicable_templates) |->
            _create_remedy_from_template(applicable_templates[i], issue) ]
        \o _generate_issue_specific_remedies(issue)

\* _generate_general_remedies (lines 527-564)
_generate_general_remedies(doc) ==
    (IF doc.lines < 10
     THEN << [ title |-> "Improve Document Structure", priority |-> "low",
               applicable_issues |-> <<>>, template_id |-> "" ] >>
     ELSE <<>>)
    \o << [ title |-> "Professional Legal Review", priority |-> "medium",
            applicable_issues |-> <<>>, template_id |-> "" ] >>

\* the loop of lines 573-576 that kept the last remedy of a title, in the
\* place of the first
RECURSIVE DedupLoop_LastWins(_, _, _)
DedupLoop_LastWins(remedies, seen_titles, unique_remedies) ==
    IF remedies = <<>> THEN unique_remedies
    ELSE LET remedy == Head(remedies)
         IN  DedupLoop_LastWins(
                 Tail(remedies), seen_titles \cup {remedy.title},
                 IF remedy.title \notin seen_titles
                 THEN Append(unique_remedies, remedy)
                 ELSE [ i \in 1..Len(unique_remedies) |->
                          IF unique_remedies[i].title = remedy.title
                          THEN remedy ELSE unique_remedies[i] ])

\* the deduplication loop of lines 570-576
RECURSIVE DedupLoop(_, _, _)
DedupLoop(remedies, seen_titles, unique_remedies) ==
    IF remedies = <<>> THEN unique_remedies
    ELSE LET remedy == Head(remedies)
         IN  IF remedy.title \notin seen_titles
             THEN DedupLoop(Tail(remedies), seen_titles \cup {remedy.title},
                            Append(unique_remedies, remedy))
             ELSE DedupLoop(Tail(remedies), seen_titles, unique_remedies)

\* priority_order.get(r.priority, 5) of lines 579-587
priority_order(priority) ==
    CASE priority = "critical" -> 0
      [] priority = "high" -> 1
      [] priority = "medium" -> 2
      [] priority = "low" -> 3
      [] priority = "info" -> 4
      [] OTHER -> 5

\* line 587 without the sort
sorted_Unsorted(unique_remedies) == unique_remedies

\* sorted(unique_remedies, key=...) of line 587: Python's sort is stable
sorted(unique_remedies) ==
    LET ranked(rank) ==
            SelectSeq(unique_remedies,
                      LAMBDA r : priority_order(r.priority) = rank)
    IN  ranked(0) \o ranked(1) \o ranked(2) \o ranked(3) \o ranked(4)
        \o ranked(5)

\* _deduplicate_and_prioritize (lines 566-587)
_deduplicate_and_prioritize(remedies) == sorted(DedupLoop(remedies, {}, <<>>))

Max(a, b) == IF Less(a, b) THEN b ELSE a

\* line 619 without the clamp
Clamp_None(final_confidence) == final_confidence

\* min(0.95, max(0.6, final_confidence)) of line 619
Clamp(final_confidence) ==
    Min(Frac(95, 100), Max(Frac(6, 10), final_confidence))

\* _calculate_remedy_confidence (lines 602-619)
_calculate_remedy_confidence(remedies, issues) ==
    IF remedies = <<>> THEN Frac(1, 2)
    ELSE LET template_based_count ==
                 Len(SelectSeq(remedies, LAMBDA r : r.template_id # ""))
             template_confidence == Frac(template_based_count, Len(remedies))
             coverage_confidence ==
                 IF issues # <<>>
                 THEN Min(Frac(1, 1), Frac(Len(issues), Len(remedies)))
                 ELSE Frac(1, 1)
         IN  Clamp(Plus(Times(template_confidence, Frac(6, 10)),
                        Times(coverage_confidence, Frac(4, 10))))

\* lines 367-372 of RemedyCompiler.analyze: the issues the remedies are
\* compiled for; of md only the detected_issues entry matters, which None,
\* the empty dict and a dict without the key do not have
IssuesOf(doc, md) ==
    IF md.has_detected_issues
    THEN md.detected_issues
    ELSE _detect_basic_issues(doc)

\* all_remedies of lines 375-382
all_remedies(doc, issues) ==
    Flatten([ i \in 1..Len(issues) |->
                _generate_remedies_for_issue(issues[i]) ])
    \o _generate_general_remedies(doc)

\* RemedyCompiler.analyze (lines 346-407), on a document that passes
\* validate_input
RemedyCompiler_analyze(doc, md) ==
    LET issues == IssuesOf(doc, md)
        unique_remedies ==
            _deduplicate_and_prioritize(all_remedies(doc, issues))
    IN  [ status |-> "completed",
          remedies |-> unique_remedies,
          confidence_score |->
              _calculate_remedy_confidence(unique_remedies, issues),
          total_issues_addressed |-> Len(issues) ]

\* ----------------------------------- the compiler under the orchestrator
\* every text of Inputs, as the compiler sees it: one line, none of the
\* clause phrases
CallDocument == [phrases |-> {}, lines |-> 1]

\* remedy_metadata of lines 181 and 217 of document_analyzer.py, as the
\* compiler reads it: detected_issues is always there
remedy_metadata(detected_issues) ==
    [has_detected_issues |-> TRUE, detected_issues |-> detected_issues]

\* a confidence score in hundredths
Percent(score) == (score.num * 100) \div score.den

\* the Remedy objects RemedyCompiler.analyze makes during call c for
\* metadata["detected_issues"] (ids are fresh uuids)
WithIds(c, remedies) ==
    [ k \in 1..Len(remedies) |->
        [ id |-> <<c, k>>, title |-> remedies[k].title,
          priority |-> remedies[k].priority,
          applicable_issues |-> remedies[k].applicable_issues,
          template_id |-> remedies[k].template_id ] ]

\* the remedies the compiler returns to call c
CompiledRemedies(c, detected_issues) ==
    WithIds(c, RemedyCompiler_analyze(
                   CallDocument, remedy_metadata(detected_issues)).remedies)

\* RemedyCompiler.analyze: raises, or returns the compiled remedies
CompilerOutcomes(c, detected_issues) ==
    LET result == RemedyCompiler_analyze(CallDocument,
                                         remedy_metadata(detected_issues))
    IN  { NoneResult,
          [Absent EXCEPT !.state = "ok",
                         !.remedies = WithIds(c, result.remedies),
                         !.confidence = Percent(result.confidence_score)] }

\* no component pass is run on its own
NoSample == [kind |-> "none"]

\* a new analyzer and no call yet
NoCalls ==
    /\ pc = [c \in Calls |-> "idle"]
    /\ text = [c \in Calls |-> <<>>]
    /\ metadata = [c \in Calls |-> {}]
    /\ ready = <<>>
    /\ gathered = [c \in Calls |-> NoResults]
    /\ heap = << >>
    /\ cache = {}
    /\ ret = [c \in Calls |-> 0]
    /\ err = [c \in Calls |-> NoError]
    /\ failed_result = [c \in Calls |-> _create_base_result("")]
    /\ trace = [c \in Calls |-> <<>>]
    /\ before = [c \in Calls |-> <<>>]
    /\ returned = <<>>
    /\ service = [c \in Calls |-> Uploaded]

\* the process_document calls of the model
Requests == 1..MaxRequests

\* a process_document call that has not been made
NoRequest ==
    [ pc |-> "idle", document_id |-> "", user_id |-> "", read |-> "",
      wrote |-> "", status_code |-> 0 ]

\* no clear_cache() yet, and the one document as upload_document stored it
\* (lines 113-126 of document_processing.py), by user u1
AsideInit ==
    /\ clears = 0
    /\ document = [ processing_status |-> "uploaded", error_message |-> "",
                    uploaded_by |-> "u1" ]
    /\ request = [r \in Requests |-> NoRequest]

Init ==
    /\ cfg \in Configs
    /\ NoCalls
    /\ AsideInit
    /\ sample = NoSample
    /\ output = <<>>

\* the events of one component run with outcome o
Ran(comp, seed, o) ==
    << Event("start", comp, seed),
       Event(IF o.state = "ok" THEN "ok" ELSE "fail", comp, <<>>) >>

\* the compiler started without the detector's issues
DetectedIssues_Unseeded(rdet) == <<>>

\* detected_issues of lines 177-179 and 213-215
DetectedIssues(rdet) == IF rdet.state = "ok" THEN rdet.issues ELSE <<>>

\* a caller awaits analyzer.analyze(t, md): the coroutine becomes runnable
Call(c, t, md) ==
    /\ pc[c] = "idle"
    /\ \A d \in Calls : d < c => pc[d] # "idle"
    /\ pc' = [pc EXCEPT ![c] = "scheduled"]
    /\ text' = [text EXCEPT ![c] = t]
    /\ metadata' = [metadata EXCEPT ![c] = md]
    /\ ready' = Append(ready, <<c, "main">>)
    /\ service' = [service EXCEPT ![c].processing_status = "processing"]
    /\ UNCHANGED << cfg, gathered, heap, cache, ret, err, failed_result,
                    trace, before, returned, sample, output, aside >>

\* lines 138-148 after validate_input raised ValueError(msg): the handler
\* builds a failed result, drops it and raises AnalysisError
RaiseInvalid(c, msg) ==
    /\ pc' = [pc EXCEPT ![c] = "raised"]
    /\ failed_result' =
           [ failed_result EXCEPT ![c] =
               [ _create_base_result(DictGet(metadata[c], "document_id", ""))
                 EXCEPT !.status = "failed", !.error_message = msg,
                        !.completed_at = TRUE ] ]
    /\ err' = [ err EXCEPT ![c] =
                  [ type |-> "AnalysisError", error_code |-> "ANALYSIS_ERROR",
                    cause |-> "ValueError", message |-> msg ] ]
    /\ trace' = [trace EXCEPT ![c] = << Event("invalid", "", <<>>) >>]
    /\ service' = [service EXCEPT ![c] = Answered("failed", msg, 422, FALSE)]
    /\ UNCHANGED << gathered, heap, cache, ret, returned >>

\* lines 104-109: the cached object itself is annotated and returned
ReturnCached(c, key) ==
    /\ pc' = [pc EXCEPT ![c] = "returned"]
    /\ heap' = [heap EXCEPT ![CacheGet(key)].metadata.cached_result = TRUE]
    /\ ret' = [ret EXCEPT ![c] = CacheGet(key)]
    /\ trace' = [trace EXCEPT ![c] = << Event("hit", "", <<>>) >>]
    /\ returned' = Append(returned, c)
    /\ service' = [service EXCEPT
                      ![c] = AfterStorage(heap[CacheGet(key)], FALSE)]
    /\ UNCHANGED << gathered, cache, err, failed_result >>

\* lines 175-188 (211-224), then 121-136: remedy compilation seeded with the
\* detected issues, integration, report, cache insert, completion.  No await
\* in this stretch yields to the event loop, so however long it takes (late:
\* longer than what is left of processing_timeout) the timer of wait_for
\* cannot interrupt it and process_document stores the result (lines 200-214).
\* The overrun is followed in sequential mode, where the whole call is such a
\* stretch; in parallel mode the one followed is that of Timeout.
Complete(c, rcls, rdet, tr) ==
    \E late \in IF /\ ~cfg.parallel_processing
                   /\ \/ cfg.enable_classification
                      \/ cfg.enable_contradiction_detection
                      \/ cfg.enable_remedy_generation
                THEN BOOLEAN ELSE {FALSE} :
    \E orem \in IF cfg.enable_remedy_generation
                THEN CompilerOutcomes(c, DetectedIssues(rdet))
                ELSE { Absent } :
        LET results ==
                [ classification |-> rcls, contradiction_detection |-> rdet,
                  remedy_generation |-> orem ]
            base == [ _create_base_result(
                          DictGet(metadata[c], "document_id", ""))
                      EXCEPT !.tokens_analyzed = WordCount(text[c]) ]
            integrated ==
                _generate_analysis_report(
                    _integrate_analysis_results(base, results), results)
            key == _generate_cache_key(text[c], metadata[c])
        IN  /\ gathered' = [gathered EXCEPT ![c] = results]
            /\ heap' = Alloc(c, [ integrated EXCEPT !.completed_at = TRUE,
                                                    !.status = "completed" ])
            /\ cache' = Store(key, c)
            /\ trace' =
                   [ trace EXCEPT ![c] =
                       tr
                       \o (IF cfg.enable_remedy_generation
                           THEN Ran("remedy_generation",
                                    DetectedIssues(rdet), orem)
                           ELSE <<>>)
                       \o (IF cfg.enable_caching
                           THEN << Event("store", "", <<>>) >> ELSE <<>>) ]
            /\ ret' = [ret EXCEPT ![c] = c]
            /\ pc' = [pc EXCEPT ![c] = "returned"]
            /\ returned' = Append(returned, c)
            /\ service' = [service EXCEPT
                              ![c] = AfterStorage(integrated, late)]
            /\ UNCHANGED << err, failed_result >>

\* the child tasks asyncio.gather is given (lines 153-160), in order
GatherTasks ==
    (IF cfg.enable_classification THEN << "classification" >> ELSE <<>>)
    \o (IF cfg.enable_contradiction_detection
        THEN << "contradiction_detection" >> ELSE <<>>)

\* _run_sequential_analysis, lines 193-209: the two components one after the
\* other, each failure caught; nothing in them yields to the event loop
RunSequential(c, tr) ==
    \E ocls \in IF cfg.enable_classification
                THEN ClassifierOutcomes(text[c]) ELSE { Absent } :
    \E odet \in IF cfg.enable_contradiction_detection
                THEN DetectorOutcomes(c, text[c]) ELSE { Absent } :
        Complete(c, ocls, odet,
                 tr
                 \o (IF cfg.enable_classification
                     THEN Ran("classification", <<>>, ocls) ELSE <<>>)
                 \o (IF cfg.enable_contradiction_detection
                     THEN Ran("contradiction_detection", <<>>, odet)
                     ELSE <<>>))

\* _run_parallel_analysis up to `await asyncio.gather(...)`: the child tasks
\* are scheduled and the coroutine is suspended
Suspend(c, tr) ==
    /\ pc' = [pc EXCEPT ![c] = "gather"]
    /\ gathered' =
           [ gathered EXCEPT ![c] =
               [ NoResults EXCEPT
                   !.classification =
                       IF cfg.enable_classification THEN Pending ELSE Absent,
                   !.contradiction_detection =
                       IF cfg.enable_contradiction_detection
                       THEN Pending ELSE Absent ] ]
    /\ heap' = Alloc(c, [ _create_base_result(
                              DictGet(metadata[c], "document_id", ""))
                          EXCEPT !.tokens_analyzed = WordCount(text[c]) ])
    /\ trace' = [trace EXCEPT ![c] = tr]
    /\ UNCHANGED << cache, ret, err, failed_result, returned, service >>

\* the event loop runs analyze() of call c from line 96 to its first
\* suspension, or to its end
Start(c) ==
    /\ ready # <<>> /\ Head(ready) = <<c, "main">>
    /\ pc[c] = "scheduled"
    /\ before' = [before EXCEPT ![c] = returned]
    /\ UNCHANGED << cfg, text, metadata, sample, output, aside >>
    /\ LET key == _generate_cache_key(text[c], metadata[c])
           miss == << Event("miss", "", <<>>) >>
       IN  IF validate_input(text[c]) # "ok"
           THEN /\ RaiseInvalid(c, validate_input(text[c]))
                /\ ready' = Tail(ready)
           ELSE IF cfg.enable_caching /\ CacheHas(key)
           THEN /\ ReturnCached(c, key)
                /\ ready' = Tail(ready)
           ELSE IF cfg.parallel_processing /\ GatherTasks # <<>>
           THEN /\ Suspend(c, miss)
                /\ ready' = Tail(ready)
                             \o [i \in 1..Len(GatherTasks) |->
                                     <<c, GatherTasks[i]>>]
           ELSE /\ IF cfg.parallel_processing
                   THEN Complete(c, Absent, Absent, miss)
                   ELSE RunSequential(c, miss)
                /\ ready' = Tail(ready)

\* the outcomes of the child task `name` of call c
TaskOutcomes(c, name) ==
    IF name = "classification"
    THEN ClassifierOutcomes(text[c]) ELSE DetectorOutcomes(c, text[c])

\* RunTask with gather called without return_exceptions=True: the first child
\* exception leaves gather and analyze() wraps it in an AnalysisError
RunTask_NoReturnExceptions(c, name) ==
    /\ ready # <<>> /\ Head(ready) = <<c, name>>
    /\ pc[c] = "gather"
    /\ \E o \in TaskOutcomes(c, name) :
        /\ gathered' = [gathered EXCEPT ![c][name] = o]
        /\ trace' = [trace EXCEPT ![c] = @ \o Ran(name, <<>>, o)]
        /\ IF o.state = "failed"
           THEN /\ pc' = [pc EXCEPT ![c] = "raised"]
                /\ err' = [ err EXCEPT ![c] =
                              [ type |-> "AnalysisError",
                                error_code |-> "ANALYSIS_ERROR",
                                cause |-> "DetectionError",
                                message |-> "component failed" ] ]
                /\ ready' = SelectSeq(Tail(ready), LAMBDA e : e[1] # c)
           ELSE /\ UNCHANGED << pc, err >>
                /\ ready' =
                       IF \E n \in Components \ {name} :
                              gathered[c][n].state = "pending"
                       THEN Tail(ready)
                       ELSE Append(Tail(ready), <<c, "wakeup">>)
    /\ UNCHANGED << cfg, text, metadata, heap, cache, ret,
                    failed_result, before, returned, service,
                    sample, output, aside >>

\* the event loop runs one child task of gather to its end (return_exceptions
\* keeps its exception as its result); the last one wakes the parent
RunTask(c, name) ==
    /\ ready # <<>> /\ Head(ready) = <<c, name>>
    /\ pc[c] = "gather"
    /\ \E o \in TaskOutcomes(c, name) :
        /\ gathered' = [gathered EXCEPT ![c][name] = o]
        /\ trace' = [trace EXCEPT ![c] = @ \o Ran(name, <<>>, o)]
    /\ ready' =
           IF \E n \in Components \ {name} : gathered[c][n].state = "pending"
           THEN Tail(ready)
           ELSE Append(Tail(ready), <<c, "wakeup">>)
    /\ UNCHANGED << cfg, pc, text, metadata, heap, cache, ret, err,
                    failed_result, before, returned, service,
                    sample, output, aside >>

\* lines 166-173 with the results of gather paired with the task names in
\* the opposite order
ProcessResults_Misaligned(c) ==
    IF cfg.enable_classification /\ cfg.enable_contradiction_detection
    THEN [ classification |-> gathered[c]["contradiction_detection"],
           contradiction_detection |-> gathered[c]["classification"] ]
    ELSE [ classification |-> gathered[c]["classification"],
           contradiction_detection |-> gathered[c]["contradiction_detection"] ]

\* lines 166-173: the results of gather are paired with the task names in
\* the order the tasks were made, an exception becoming None
ProcessResults(c) ==
    [ classification |-> gathered[c]["classification"],
      contradiction_detection |-> gathered[c]["contradiction_detection"] ]

\* the parent resumes after gather: lines 165-188, then 121-136
Resume(c) ==
    /\ ready # <<>> /\ Head(ready) = <<c, "wakeup">>
    /\ pc[c] = "gather"
    /\ Complete(c, ProcessResults(c).classification,
                ProcessResults(c).contradiction_detection, trace[c])
    /\ ready' = Tail(ready)
    /\ UNCHANGED << cfg, text, metadata, before, sample, output, aside >>

\* asyncio.wait_for (document_processing.py, lines 195-198) runs out while
\* the call is suspended in gather: its timer is queued behind the child
\* tasks, so the cancellation reaches the call when it is woken, as a
\* CancelledError at line 163, which is no Exception: the handler of line
\* 138 does not run and nothing is returned
Timeout(c) ==
    /\ pc[c] = "gather"
    /\ \A n \in Components : gathered[c][n].state # "pending"
    /\ pc' = [pc EXCEPT ![c] = "cancelled"]
    /\ ready' = SelectSeq(ready, LAMBDA e : e[1] # c)
    /\ err' = [ err EXCEPT ![c] =
                  [ type |-> "CancelledError", error_code |-> "",
                    cause |-> "", message |-> "" ] ]
    /\ service' = [service EXCEPT
                      ![c] = Answered("failed", "Processing timeout exceeded",
                                      408, TRUE)]
    /\ UNCHANGED << cfg, text, metadata, gathered, heap, cache, ret,
                    failed_result, trace, before, returned, sample, output,
                    aside >>

Next ==
    \/ \E c \in Calls, inp \in Inputs : Call(c, inp[1], inp[2])
    \/ \E c \in Calls : Start(c)
    \/ \E c \in Calls, name \in {"classification", "contradiction_detection"} :
           RunTask(c, name)
    \/ \E c \in Calls : Resume(c)
    \/ \E c \in Calls : Timeout(c)

Spec == Init /\ [][Next]_vars

\* clear_cache() that leaves the entries where they are
ClearCache_KeepsEntries ==
    /\ clears < MaxClears
    /\ cache # {}
    /\ clears' = clears + 1
    /\ UNCHANGED << calls, sample, output, document, request >>

\* clear_cache() (lines 467-469), called between two steps of the event loop;
\* clearing an empty cache changes nothing and is left out, and the model
\* follows MaxClears of the others
ClearCache ==
    /\ clears < MaxClears
    /\ cache # {}
    /\ cache' = {}
    /\ clears' = clears + 1
    /\ UNCHANGED << cfg, pc, text, metadata, ready, gathered, heap, ret, err,
                    failed_result, trace, before, returned, service,
                    sample, output, document, request >>

\* the analyzer with its cache cleared now and then
CacheNext ==
    \/ Next
    \/ ClearCache

\* an analyzer that caches: with enable_caching off nothing is ever stored
\* (line 128) and there is nothing to clear
CacheInit ==
    /\ Init
    /\ cfg.enable_caching

CacheSpec == CacheInit /\ [][CacheNext]_vars

\* an analyzer that does not cache (enable_caching false, line 61)
UncachedInit ==
    /\ Init
    /\ ~cfg.enable_caching

UncachedSpec == UncachedInit /\ [][Next]_vars


\* --------------------------------------------- the passes run on their own
\* texts of at most MaxWords words for the obligation pass
TermWords == {"x", "pay", "shall", "must", "not"}

TermTexts == UNION { [1..n -> TermWords] : n \in 0..MaxWords }

\* documents of at most MaxLines lines for the cross-reference pass
Lines ==
    { <<>>, <<"w">>, <<"1">>, <<"1", "w">>, <<"2", "w">>,
      <<"section", "1">>, <<"see", "section">>, <<"section", "2">> }

RefDocs == UNION { [1..n -> Lines] : n \in 0..MaxLines }

\* issue lists of at most MaxScored issues and token counts for the score
ScoredIssues ==
    { [severity |-> "critical", confidence |-> 100],
      [severity |-> "high", confidence |-> 90],
      [severity |-> "medium", confidence |-> 95],
      [severity |-> "info", confidence |-> 70] }

IssueLists == UNION { [1..n -> ScoredIssues] : n \in 0..MaxScored }

TokenCounts == {0, 500, 1000, 2000}

\* what a text may hold of the lists of one rule set: nothing, all its
\* keywords, its keywords and phrases and half the pattern density, or all
\* of it with more pattern matches than count
Profiles == {"nothing", "keywords", "wording", "everything"}

Features(profile, rules) ==
    CASE profile = "nothing" ->
             [keywords |-> 0, phrases |-> 0, patterns |-> 0, signatures |-> 0]
      [] profile = "keywords" ->
             [keywords |-> rules.keywords, phrases |-> 0, patterns |-> 0,
              signatures |-> 0]
      [] profile = "wording" ->
             [keywords |-> rules.keywords, phrases |-> rules.phrases,
              patterns |-> rules.patterns, signatures |-> 0]
      [] profile = "everything" ->
             [keywords |-> rules.keywords, phrases |-> rules.phrases,
              patterns |-> 2 * rules.patterns + 1,
              signatures |-> rules.signatures]

\* the issues a caller hands to the remedy compiler: what the detector
\* reports (lines 250, 326, 365 and 405 of contradiction_detector.py) and an
\* ambiguity of the lowest severity
IssueKinds ==
    { [ type |-> "contradiction", severity |-> "high",
        title |-> "Conflicting obligation for buyer" ],
      [ type |-> "contradiction", severity |-> "high",
        title |-> "Conflicting obligation for seller" ],
      [ type |-> "inconsistency", severity |-> "high",
        title |-> "Monetary Amount Inconsistency" ],
      [ type |-> "reference_error", severity |-> "medium",
        title |-> "Broken Section Reference: 2" ],
      [ type |-> "compliance_issue", severity |-> "critical",
        title |-> "Potential Legal Issue" ],
      [ type |-> "ambiguity", severity |-> "info",
        title |-> "Ambiguous Term" ] }

\* each issue has its own id (a fresh uuid, line 60 of base.py)
GivenIssues ==
    { [ i \in 1..Len(kinds) |->
          [ id |-> i, type |-> kinds[i].type,
            severity |-> kinds[i].severity, title |-> kinds[i].title ] ] :
      kinds \in UNION { [1..n -> IssueKinds] : n \in 0..MaxGiven } }

\* the documents handed to the remedy compiler: short or long, with any of
\* four clause phrases
CompilerDocs ==
    [ phrases : SUBSET {"laws of", "arbitration", "termination", "act of god"},
      lines : {1, 10} ]

\* the metadata handed to the remedy compiler: without detected_issues, or
\* with the list the caller made (the orchestrator always makes one, lines
\* 177-181 and 213-217 of document_analyzer.py)
CompilerMetadata ==
    { [ has_detected_issues |-> FALSE, detected_issues |-> <<>> ] }
    \cup { [ has_detected_issues |-> TRUE, detected_issues |-> l ] :
             l \in GivenIssues }

UnitInit ==
    /\ cfg = [ enable_classification |-> TRUE,
               enable_contradiction_detection |-> TRUE,
               enable_remedy_generation |-> TRUE,
               parallel_processing |-> TRUE, enable_caching |-> TRUE ]
    /\ NoCalls
    /\ AsideInit
    /\ output = <<>>
    /\ \/ \E t \in TermTexts : sample = [kind |-> "terms", text |-> t]
       \/ \E d \in RefDocs : sample = [kind |-> "references", doc |-> d]
       \/ \E l \in IssueLists, n \in TokenCounts :
              sample = [ kind |-> "confidence", contradictions |-> l,
                         token_count |-> n ]
       \/ \E p \in [DOMAIN _classification_rules -> Profiles] :
              sample = [ kind |-> "classify",
                         features |->
                             [ i \in DOMAIN _classification_rules |->
                                 Features(p[i], _classification_rules[i]) ] ]
       \/ \E d \in CompilerDocs, md \in CompilerMetadata :
              sample = [kind |-> "remedies", doc |-> d, metadata |-> md]

DetectTermConflicts ==
    /\ sample.kind = "terms" /\ output = <<>>
    /\ output' = << _detect_term_conflicts(sample.text) >>
    /\ UNCHANGED << calls, sample, aside >>

DetectReferenceErrors ==
    /\ sample.kind = "references" /\ output = <<>>
    /\ \E errors \in _detect_reference_errors(sample.doc) :
           output' = << errors >>
    /\ UNCHANGED << calls, sample, aside >>

CalculateConfidenceScore ==
    /\ sample.kind = "confidence" /\ output = <<>>
    /\ output' = << _calculate_confidence_score(sample.contradictions,
                                                sample.token_count) >>
    /\ UNCHANGED << calls, sample, aside >>

ClassifyDocument ==
    /\ sample.kind = "classify" /\ output = <<>>
    /\ output' = << _classify_document(sample.features) >>
    /\ UNCHANGED << calls, sample, aside >>

CompileRemedies ==
    /\ sample.kind = "remedies" /\ output = <<>>
    /\ output' = << RemedyCompiler_analyze(sample.doc, sample.metadata) >>
    /\ UNCHANGED << calls, sample, aside >>

UnitNext ==
    \/ CompileRemedies
    \/ DetectTermConflicts
    \/ DetectReferenceErrors
    \/ CalculateConfidenceScore
    \/ ClassifyDocument

UnitSpec == UnitInit /\ [][UnitNext]_vars

\* ------------------------------------------- DocumentProcessingService
\* process_document (document_processing.py, lines 138-260) called
\* concurrently on one event loop, each call with its own database session.
\* Every await on the database or on the analysis is a point where the other
\* calls run; a write is seen by the others when it is committed.

\* the document_id and user_id of the calls: d1 is the uploaded document, of
\* user u1
DocumentIds == {"d1", "d9"}

UserIds == {"u1", "u2"}

\* the call ends with the HTTP status code (200, or that of the HTTPException)
Answer(r, code) ==
    [request EXCEPT ![r].pc = "answered", ![r].status_code = code]

\* process_document is called
ProcessDocument(r, document_id, user_id) ==
    /\ request[r].pc = "idle"
    /\ \A q \in Requests : q < r => request[q].pc # "idle"
    /\ request' = [ request EXCEPT ![r].pc = "select",
                                   ![r].document_id = document_id,
                                   ![r].user_id = user_id ]
    /\ UNCHANGED << calls, sample, output, clears, document >>

\* lines 158-173: the select returns the row as it is now, and the call
\* checks what it read
Select(r) ==
    /\ request[r].pc = "select"
    /\ request' =
           IF request[r].document_id # "d1" THEN Answer(r, 404)
           ELSE IF document.uploaded_by # request[r].user_id
           THEN Answer(r, 403)
           ELSE IF document.processing_status = "processing"
           THEN Answer(r, 409)
           ELSE [ request EXCEPT ![r].pc = "update",
                                 ![r].read = document.processing_status ]
    /\ UNCHANGED << calls, sample, output, clears, document >>

\* lines 175-181: the update to PROCESSING is committed
MarkProcessing(r) ==
    /\ request[r].pc = "update"
    /\ document' = [document EXCEPT !.processing_status = "processing"]
    /\ request' = [ request EXCEPT ![r].pc = "analyze",
                                   ![r].wrote = "processing" ]
    /\ UNCHANGED << calls, sample, output, clears >>

\* lines 183-198: wait_for(analyze(...)) ends: with a result, with
\* asyncio.TimeoutError, or with the LocalAgentCoreError analyze raised
AnalysisEnds(r) ==
    /\ request[r].pc = "analyze"
    /\ \E outcome \in {"store", "on_timeout", "on_error"} :
           request' = [ request EXCEPT
                          ![r].pc = outcome,
                          ![r].status_code =
                              IF outcome = "on_error" THEN 422 ELSE 0 ]
    /\ UNCHANGED << calls, sample, output, clears, document >>

\* lines 200-203: _store_analysis_results (lines 441-504) returns, or raises:
\* json.dumps of line 460 raises TypeError on the DocumentType member of a
\* classification, and the database may refuse the rows
StoreResults(r) ==
    /\ request[r].pc = "store"
    /\ \E stored \in BOOLEAN :
           request' = [ request EXCEPT
                          ![r].pc = IF stored THEN "complete" ELSE "on_error",
                          ![r].status_code = IF stored THEN 0 ELSE 500 ]
    /\ UNCHANGED << calls, sample, output, clears, document >>

\* lines 205-216: the update to COMPLETED is committed
MarkCompleted(r) ==
    /\ request[r].pc = "complete"
    /\ document' = [document EXCEPT !.processing_status = "completed"]
    /\ request' = [Answer(r, 200) EXCEPT ![r].wrote = "completed"]
    /\ UNCHANGED << calls, sample, output, clears >>

\* lines 218-233: the handler of asyncio.TimeoutError
HandleTimeout(r) ==
    /\ request[r].pc = "on_timeout"
    /\ document' = [ document EXCEPT
                       !.processing_status = "failed",
                       !.error_message = "Processing timeout exceeded" ]
    /\ request' = [Answer(r, 408) EXCEPT ![r].wrote = "failed"]
    /\ UNCHANGED << calls, sample, output, clears >>

\* lines 235-251: the handler of Exception
HandleError(r) ==
    /\ request[r].pc = "on_error"
    /\ document' = [ document EXCEPT
                       !.processing_status = "failed",
                       !.error_message = "Analysis failed" ]
    /\ request' = [ Answer(r, request[r].status_code)
                    EXCEPT ![r].wrote = "failed" ]
    /\ UNCHANGED << calls, sample, output, clears >>

\* the task that runs the call is cancelled while it waits (the client went
\* away, the server shuts down): CancelledError is raised at the await.  It
\* is a BaseException, so none of the handlers of lines 218, 235, 253 and 255
\* (nor that of _background_analysis, api/document_processing.py line 510)
\* catches it, and the call is left
Cancel(r) ==
    /\ request[r].pc \in { "select", "update", "analyze", "store", "complete",
                           "on_timeout", "on_error" }
    /\ request' = [request EXCEPT ![r].pc = "cancelled"]
    /\ UNCHANGED << calls, sample, output, clears, document >>

\* one step of call r that the event loop takes when its await is over
Proceed(r) ==
    \/ Select(r)
    \/ MarkProcessing(r)
    \/ AnalysisEnds(r)
    \/ StoreResults(r)
    \/ MarkCompleted(r)
    \/ HandleTimeout(r)
    \/ HandleError(r)

ServiceInit ==
    /\ cfg = [ enable_classification |-> TRUE,
               enable_contradiction_detection |-> TRUE,
               enable_remedy_generation |-> TRUE,
               parallel_processing |-> TRUE, enable_caching |-> TRUE ]
    /\ NoCalls
    /\ AsideInit
    /\ sample = NoSample
    /\ output = <<>>

ServiceNext ==
    \/ \E r \in Requests, d \in DocumentIds, u \in UserIds :
           ProcessDocument(r, d, u)
    \/ \E r \in Requests : Select(r)
    \/ \E r \in Requests : MarkProcessing(r)
    \/ \E r \in Requests : AnalysisEnds(r)
    \/ \E r \in Requests : StoreResults(r)
    \/ \E r \in Requests : MarkCompleted(r)
    \/ \E r \in Requests : HandleTimeout(r)
    \/ \E r \in Requests : HandleError(r)
    \/ \E r \in Requests : Cancel(r)

ServiceSpec == ServiceInit /\ [][ServiceNext]_vars

\* the event loop resumes every call whose await is over; nothing obliges a
\* call to be made or to be cancelled
FairServiceSpec ==
    ServiceSpec /\ \A r \in Requests : WF_vars(Proceed(r))


\* ------------------------------------------------------------ the claims
Happened(c, ev, comp) ==
    \E i \in 1..Len(trace[c]) : trace[c][i].ev = ev /\ trace[c][i].comp = comp

\* the call has left analyze(), by a return or by an exception of its own
Ended(c) == pc[c] \in {"returned", "raised"}

Invalid(t) == IsBlank(t) \/ ByteLen(t) > max_document_size

\* C1: when contradiction detection raises and classification succeeds, the
\* call that runs to its end returns its own result, with status completed,
\* the classifier's classification and no issue, and raises nothing, in
\* parallel and in sequential mode alike.
C1_PartialFailureTolerated ==
    \A c \in Calls :
        ( /\ Ended(c)
          /\ Happened(c, "fail", "contradiction_detection")
          /\ Happened(c, "ok", "classification") )
        => /\ pc[c] = "returned"
           /\ ret[c] = c
           /\ err[c] = NoError
           /\ heap[c].status = "completed"
           /\ heap[c].classification # NoClassification
           /\ heap[c].classification
                  = gathered[c]["classification"].classification
           /\ heap[c].issues = <<>>

C1_Witness ==
    \E c \in Calls :
        /\ cfg.parallel_processing
        /\ pc[c] = "returned"
        /\ Happened(c, "fail", "contradiction_detection")
        /\ Happened(c, "ok", "classification")
        /\ heap[c].classification.document_type = "contract"

\* the components that succeeded during call c
Succeeded(c) == { n \in Components : Happened(c, "ok", n) }

\* the components the analyzer runs
Enabled ==
    { n \in Components :
        \/ n = "classification" /\ cfg.enable_classification
        \/ n = "contradiction_detection" /\ cfg.enable_contradiction_detection
        \/ n = "remedy_generation" /\ cfg.enable_remedy_generation }

\* the call has run its components (it passed validation and missed the cache)
\* and has left analyze()
RanToEnd(c) == Ended(c) /\ Happened(c, "miss", "")

\* C2 as stated: a call in which every enabled component fails does not end
\* completed, and a call in which one succeeds ends completed.
C2_AllFailedIsFatal ==
    \A c \in Calls :
        RanToEnd(c)
        => /\ (Enabled # {} /\ Succeeded(c) = {})
                  => ~(pc[c] = "returned" /\ heap[ret[c]].status = "completed")
           /\ Succeeded(c) # {}
                  => (pc[c] = "returned" /\ heap[ret[c]].status = "completed")

\* C2, amended: a component failure is never fatal. Every call that runs its
\* components to the end returns completed; when none of them succeeded the
\* result has no classification, no issues, no remedies, no component listed
\* as available, and the default confidence 0.5.
C2_FailuresNeverFatal ==
    \A c \in Calls :
        RanToEnd(c)
        => /\ pc[c] = "returned"
           /\ ret[c] = c
           /\ err[c] = NoError
           /\ heap[c].status = "completed"
           /\ Succeeded(c) = {}
                  => /\ heap[c].classification = NoClassification
                     /\ heap[c].issues = <<>>
                     /\ heap[c].remedies = <<>>
                     /\ heap[c].metadata.analysis_components = {}
                     /\ heap[c].confidence_score = Frac(1, 2)

C2_Witness ==
    \E c \in Calls :
        /\ Enabled = Components
        /\ pc[c] = "returned"
        /\ \A n \in Components : Happened(c, "fail", n)
        /\ heap[c].status = "completed"

\* C3: validation comes first and its failure is immediate. A call whose text
\* is empty, whitespace-only or larger in UTF-8 bytes than max_document_size
\* starts no component, neither looks up nor fills the cache, allocates and
\* returns no result, and ends with the validation error (the ValueError of
\* validate_input, carried by the AnalysisError that analyze raises).
C3_InvalidInputRejectedFirst ==
    \A c \in Calls :
        (pc[c] \notin {"idle", "scheduled"} /\ Invalid(text[c]))
        => /\ pc[c] = "raised"
           /\ trace[c] = << Event("invalid", "", <<>>) >>
           /\ gathered[c] = NoResults
           /\ ret[c] = 0
           /\ c \notin DOMAIN heap
           /\ \A e \in cache : e[2] # c
           /\ err[c].cause = "ValueError"
           /\ err[c].message
                  = IF IsBlank(text[c])
                    THEN "Document text cannot be empty"
                    ELSE "Document size exceeds maximum limit"

C3_Witness ==
    \E c \in Calls :
        /\ pc[c] = "raised"
        /\ ByteLen(text[c]) > max_document_size
        /\ Len(text[c]) <= max_document_size
        /\ cache # {}

\* C4 as stated: every call that has left analyze() handed its caller an
\* AnalysisResult whose status is completed or failed (a failed one with an
\* error message), and raised nothing.
C4_AlwaysHandsBackAResult ==
    \A c \in Calls :
        Ended(c)
        => /\ ret[c] # 0
           /\ err[c] = NoError
           /\ heap[ret[c]].status \in {"completed", "failed"}
           /\ heap[ret[c]].status = "failed"
                  => heap[ret[c]].error_message # ""

\* C5 as stated: a call that fails after a component has produced output
\* delivers a failed result that keeps the issues and remedies produced
\* before the failure, with its completion time set.
C5_PartialResultsKept ==
    \A c \in Calls :
        (pc[c] \in {"raised", "cancelled"} /\ Succeeded(c) # {})
        => /\ ret[c] # 0
           /\ heap[ret[c]].status = "failed"
           /\ heap[ret[c]].completed_at
           /\ heap[ret[c]].issues
                  = DetectedIssues(gathered[c]["contradiction_detection"])

\* call c has begun to run analyze()
Started(c) == pc[c] \notin {"idle", "scheduled"}

\* c2 began right after c1 returned: c1 is the last call that had returned
\* when c2 started
Successive(c1, c2) ==
    /\ c1 # c2
    /\ Started(c2)
    /\ before[c2] # <<>>
    /\ before[c2][Len(before[c2])] = c1

\* C6: with caching enabled, a call that follows a returned call with the
\* same text and the same metadata is a cache hit: it runs no component and
\* returns a result with the same classification, issues and remedies.
C6_CachedCallsIdempotent ==
    cfg.enable_caching
    => \A c1, c2 \in Calls :
           ( /\ Successive(c1, c2)
             /\ text[c1] = text[c2]
             /\ metadata[c1] = metadata[c2] )
           => /\ pc[c2] = "returned"
              /\ trace[c2] = << Event("hit", "", <<>>) >>
              /\ gathered[c2] = NoResults
              /\ heap[ret[c2]].classification = heap[ret[c1]].classification
              /\ heap[ret[c2]].issues = heap[ret[c1]].issues
              /\ heap[ret[c2]].remedies = heap[ret[c1]].remedies

C6_Witness ==
    \E c1, c2 \in Calls :
        /\ cfg.enable_caching
        /\ Successive(c1, c2)
        /\ text[c1] = text[c2]
        /\ metadata[c1] = metadata[c2]
        /\ pc[c2] = "returned"
        /\ heap[ret[c2]].issues # <<>>
        /\ heap[ret[c2]].remedies # <<>>
        /\ heap[ret[c2]].classification.document_type = "contract"

\* the objects held by the cache
Cached == { e[2] : e \in cache }

\* call c is handed its result in this step
Returns(c) == pc[c] # "returned" /\ pc'[c] = "returned"

\* C7: a cache hit leaves the cached entry as it was and hands the caller a
\* copy, an object that is not the one held by the cache.
C7_CacheHitReadOnly ==
    [][ \A c \in Calls :
            ( /\ Returns(c)
              /\ trace'[c] = << Event("hit", "", <<>>) >> )
            => /\ \A o \in Cached : heap'[o] = heap[o]
               /\ ret'[c] \notin Cached ]_vars

\* C8: the issue and remedy records of a returned result were made by the
\* call that received it; no record is shared with the result of another call.
C8_NoSharedRecords ==
    \A c \in Calls :
        ret[c] # 0
        => /\ \A i \in 1..Len(heap[ret[c]].issues) :
                  heap[ret[c]].issues[i].id[1] = c
           /\ \A i \in 1..Len(heap[ret[c]].remedies) :
                  heap[ret[c]].remedies[i].id[1] = c

\* C9: calls with the same cache key are serialized: once an entry is stored
\* under a key, no later store replaces it while the key stays in the cache.
C9_CacheEntryNeverReplaced ==
    [][ \A e \in cache :
            (\E f \in cache' : f[1] = e[1]) => e \in cache' ]_vars

\* the positions of trace[c] before position i at which contradiction
\* detection finished
DetectionDone(c, i) ==
    { j \in 1..(i - 1) :
          /\ trace[c][j].comp = "contradiction_detection"
          /\ trace[c][j].ev \in {"ok", "fail"} }

\* C10: in both modes the remedy compiler starts only after contradiction
\* detection has finished, succeeded or failed, and its detected_issues are
\* the issues detection returned, or none when detection failed or is disabled.
C10_RemedyDownstreamOfDetection ==
    \A c \in Calls :
        \A i \in 1..Len(trace[c]) :
            ( /\ trace[c][i].ev = "start"
              /\ trace[c][i].comp = "remedy_generation" )
            => /\ cfg.enable_contradiction_detection
                      => DetectionDone(c, i) # {}
               /\ \A j \in (i + 1)..Len(trace[c]) :
                      trace[c][j].comp # "contradiction_detection"
               /\ trace[c][i].seed =
                      IF \E j \in DetectionDone(c, i) : trace[c][j].ev = "ok"
                      THEN gathered[c]["contradiction_detection"].issues
                      ELSE <<>>

C10_Witness ==
    \E c \in Calls :
        /\ cfg.parallel_processing
        /\ Happened(c, "ok", "contradiction_detection")
        /\ \E i \in 1..Len(trace[c]) :
               /\ trace[c][i].ev = "start"
               /\ trace[c][i].comp = "remedy_generation"
               /\ trace[c][i].seed # <<>>


\* C11: the status of a call's result object moves pending -> running ->
\* completed | failed: it is completed only once integration and report
\* generation are done (the call has returned it), and completed and failed
\* are never left.
C11_StatusStateMachine ==
    [][ \A o \in DOMAIN heap' :
            /\ heap'[o].status \in {"pending", "running", "completed", "failed"}
            /\ heap'[o].status = "completed" => pc'[o] = "returned"
            /\ ( /\ o \in DOMAIN heap
                 /\ heap[o].status \in {"completed", "failed"} )
               => heap'[o].status = heap[o].status ]_vars


\* C12: a call whose wall-clock budget was exceeded ends failed with a
\* timeout-kind error, in the result handed back or in what process_document
\* records and answers, and never completed.
C12_TimeoutEndsFailed ==
    \A c \in Calls :
        ( /\ service[c].budget_exceeded
          /\ pc[c] \in {"returned", "raised", "cancelled"} )
        => /\ \/ /\ ret[c] # 0
                 /\ heap[ret[c]].status = "failed"
                 /\ err[c].type = "ProcessingTimeoutError"
              \/ /\ service[c].processing_status = "failed"
                 /\ service[c].status_code = 408
                 /\ service[c].error_message = "Processing timeout exceeded"
           /\ service[c].processing_status # "completed"
           /\ ret[c] # 0 => heap[ret[c]].status # "completed"


\* the weight of component n in the blend of call c when it produced a result
BlendWeight(c, n) == IF gathered[c][n].state = "ok" THEN Weight(n) ELSE 0

\* C13: the overall confidence of a completed result is the blend of the
\* component confidences with weights 0.3, 0.4, 0.3, renormalised over
\* exactly the components that produced a result, whatever their confidence.
C13_ConfidenceBlend ==
    \A c \in Calls :
        ( /\ pc[c] = "returned"
          /\ ret[c] = c
          /\ \E n \in Components : gathered[c][n].state = "ok" )
        => heap[c].confidence_score =
               Frac( gathered[c]["classification"].confidence
                         * BlendWeight(c, "classification")
                     + gathered[c]["contradiction_detection"].confidence
                         * BlendWeight(c, "contradiction_detection")
                     + gathered[c]["remedy_generation"].confidence
                         * BlendWeight(c, "remedy_generation"),
                     100 * ( BlendWeight(c, "classification")
                             + BlendWeight(c, "contradiction_detection")
                             + BlendWeight(c, "remedy_generation") ) )


\* C14: the result a call returns, a cached one included, carries the
\* document_id of that call's metadata, or the empty one when none is given.
C14_DocumentIdPropagated ==
    \A c \in Calls :
        pc[c] = "returned"
        => heap[ret[c]].document_id = DictGet(metadata[c], "document_id", "")

\* metadata says enable_<component>: False for call c
SwitchedOff(c, n) ==
    DictGet(metadata[c], n, "True") = "False"

\* C15: a component whose flag is false in the call's metadata is not run
\* for that call and contributes nothing to the result the call computes.
C15_MetadataFlagsHonoured ==
    \A c \in Calls :
        SwitchedOff(c, "enable_contradiction_detection")
        => /\ ~Happened(c, "start", "contradiction_detection")
           /\ (pc[c] = "returned" /\ ret[c] = c) => heap[c].issues = <<>>


\* the pass of the sample has been run
Ran1(kind) == sample.kind = kind /\ output # <<>>

\* the location spans the statement m
Covers(location, m) == location.start <= m.start /\ m.end <= location.end

\* C16: when two shall/must/will statements of a text share the (entity,
\* action) key with opposite negation, the pass emits a CONTRADICTION issue
\* of severity high and confidence 0.9 whose location references both.
C16_ObligationConflictReported ==
    Ran1("terms")
    => LET ms == ObligationMatches(sample.text)
       IN  \A a, b \in 1..Len(ms) :
               ( /\ a < b
                 /\ ObligationKey(ms[a].match) = ObligationKey(ms[b].match)
                 /\ ms[a].match.negation # ms[b].match.negation )
               => \E k \in 1..Len(output[1]) :
                      /\ output[1][k].type = "contradiction"
                      /\ output[1][k].severity = "high"
                      /\ output[1][k].confidence = 90
                      /\ Covers(output[1][k].location, ms[a].match)
                      /\ Covers(output[1][k].location, ms[b].match)

\* the words of the document hold a reference "Section n"
Referenced(doc, n) ==
    \E i \in 1..(Len(Flatten(doc)) - 1) :
        Flatten(doc)[i] = "section" /\ Flatten(doc)[i + 1] = n

\* a line of the document begins with the number n and white space
HasHeader(doc, n) ==
    \E l \in 1..Len(doc) :
        /\ doc[l] # <<>>
        /\ doc[l][1] = n
        /\ (Len(doc[l]) > 1 \/ l < Len(doc))

\* C17: the pass emits exactly one REFERENCE_ERROR issue, of severity medium
\* and confidence 0.95, for each distinct referenced section number that has
\* no header, and none for a referenced number that has one.
C17_OneErrorPerBrokenReference ==
    Ran1("references")
    => /\ \A k \in 1..Len(output[1]) :
              /\ output[1][k].type = "reference_error"
              /\ output[1][k].severity = "medium"
              /\ output[1][k].confidence = 95
       /\ \A n \in SectionNumbers :
              Cardinality({ k \in 1..Len(output[1]) :
                                output[1][k].title[2] = n })
              = IF Referenced(sample.doc, n) /\ ~HasHeader(sample.doc, n)
                THEN 1 ELSE 0

C17_Witness ==
    /\ Ran1("references")
    /\ Len(SectionRefs(sample.doc)) = 2
    /\ Referenced(sample.doc, "1") /\ ~HasHeader(sample.doc, "1")
    /\ Referenced(sample.doc, "2") /\ HasHeader(sample.doc, "2")
    /\ Len(output[1]) = 1
    /\ output[1][1].title[2] = "1"

\* C18: without issues the detector's confidence is exactly 0.95; with
\* issues it is the severity-weighted average of their confidences scaled by
\* the complexity factor, and never above 0.99.
C18_DetectorConfidence ==
    Ran1("confidence")
    => LET l == sample.contradictions
           W == SumSeq([ k \in 1..Len(l) |-> severity_weights(l[k].severity) ])
           C == SumSeq([ k \in 1..Len(l) |->
                           l[k].confidence * severity_weights(l[k].severity) ])
           S == 7000 + 3 * (IF sample.token_count > 1000
                            THEN 1000 ELSE sample.token_count)
           scaled == Frac(C * S, 1000000 * W)
       IN  IF l = <<>>
           THEN output[1] = Frac(95, 100)
           ELSE /\ output[1].num * 100 <= 99 * output[1].den
                /\ output[1] = IF scaled.num * 100 <= 99 * scaled.den
                               THEN scaled ELSE Frac(99, 100)

C18_Witness ==
    /\ Ran1("confidence")
    /\ Len(sample.contradictions) = 2
    /\ sample.contradictions[1].severity # sample.contradictions[2].severity
    /\ sample.token_count = 500
    /\ output[1] # Frac(99, 100)


\* the rule sets whose score no other exceeds
TopTypes(scores) ==
    { i \in DOMAIN scores : \A j \in DOMAIN scores : ~Less(scores[i], scores[j]) }

\* the score meets the confidence_threshold of rule set i
MeetsThreshold(i, score) ==
    score.num * 10 >= _classification_rules[i].confidence_threshold * score.den

\* C19: the classification confidence lies in [0,1] and is the highest
\* score, which is reported with all the scores also when the type is
\* unknown; the type is unknown when the highest-scoring type is below its
\* threshold and is the highest-scoring type when it meets it.
C19_ThresholdOrUnknown ==
    Ran1("classify")
    => LET r == output[1]
           top == TopTypes(r.all_scores)
       IN  /\ 0 <= r.confidence.num /\ r.confidence.num <= r.confidence.den
           /\ \A i \in DOMAIN _classification_rules :
                  r.all_scores[i]
                      = TypeScore(_classification_rules[i], sample.features[i])
           /\ \A i \in top : r.confidence = r.all_scores[i]
           /\ r.document_type # "unknown"
                  => \E i \in top :
                         /\ r.document_type = _classification_rules[i].doc_type
                         /\ MeetsThreshold(i, r.confidence)
           /\ r.document_type = "unknown"
                  => \E i \in top : ~MeetsThreshold(i, r.confidence)

C19_Witness ==
    /\ Ran1("classify")
    /\ output[1].document_type = "unknown"
    /\ output[1].confidence = Frac(7, 10)
    /\ TopTypes(output[1].all_scores) = {3}

\* C20: among the types that attain the highest score the one registered
\* first decides: the outcome is that type, or unknown when its score is
\* below its threshold, so one text always gets the same type.
C20_FirstRegisteredWinsTies ==
    Ran1("classify")
    => LET r == output[1]
           top == TopTypes(r.all_scores)
           first == CHOOSE i \in top : \A j \in top : i <= j
       IN  r.document_type =
               IF MeetsThreshold(first, r.all_scores[first])
               THEN _classification_rules[first].doc_type
               ELSE "unknown"

C20_Witness ==
    /\ Ran1("classify")
    /\ TopTypes(output[1].all_scores) = {2, 4, 6}
    /\ output[1].confidence = Frac(7, 10)
    /\ output[1].document_type = "agreement"

\* the issues the compiler of the sample worked on, the remedies it
\* generated for them before deduplication, and the list it returned
Compiled == Ran1("remedies")

Handed == IssuesOf(sample.doc, sample.metadata)

Generated == all_remedies(sample.doc, Handed)

Suggested == output[1].remedies

\* critical < high < medium < low < info
SeverityRank(priority) ==
    CHOOSE k \in 1..5 :
        <<"critical", "high", "medium", "low", "info">>[k] = priority

\* C21: the remedy list the compiler returns is sorted by priority: of two
\* adjacent remedies the earlier one is at least as severe as the later one.
C21_RemediesSortedByPriority ==
    Compiled
    => \A i \in 1..(Len(Suggested) - 1) :
           SeverityRank(Suggested[i].priority)
               <= SeverityRank(Suggested[i + 1].priority)

C21_Witness ==
    /\ Compiled
    /\ \E i, j \in 1..Len(Generated) :
           /\ i < j
           /\ SeverityRank(Generated[j].priority)
                  < SeverityRank(Generated[i].priority)
    /\ Cardinality({ Suggested[i].priority : i \in 1..Len(Suggested) }) >= 4

\* the position at which a title was first generated
FirstGenerated(title) ==
    CHOOSE k \in 1..Len(Generated) :
        /\ Generated[k].title = title
        /\ \A j \in 1..(k - 1) : Generated[j].title # title

\* C22: deduplication is by title and the first occurrence wins, then the
\* sort is stable: no two returned remedies share a title, the remedy kept
\* for a title is the first one generated with it, and remedies of equal
\* priority keep their order of generation.
C22_FirstOfTitleKeptInStableOrder ==
    Compiled
    => /\ \A i, j \in 1..Len(Suggested) :
              Suggested[i].title = Suggested[j].title => i = j
       /\ \A i \in 1..Len(Suggested) :
              /\ \E k \in 1..Len(Generated) :
                     Generated[k].title = Suggested[i].title
              /\ Suggested[i] = Generated[FirstGenerated(Suggested[i].title)]
       /\ \A i, j \in 1..Len(Suggested) :
              ( i < j /\ Suggested[i].priority = Suggested[j].priority )
              => FirstGenerated(Suggested[i].title)
                     < FirstGenerated(Suggested[j].title)

C22_Witness ==
    /\ Compiled
    /\ \E i, j \in 1..Len(Generated) :
           /\ i < j
           /\ Generated[i].title = Generated[j].title
           /\ Generated[i] # Generated[j]
    /\ \E i, j \in 1..Len(Suggested) :
           i < j /\ Suggested[i].priority = Suggested[j].priority

\* the compiler of the sample was given no precomputed issue: its metadata
\* has no detected_issues, or has the empty list the orchestrator makes when
\* detection failed or found nothing
NothingHanded ==
    \/ ~sample.metadata.has_detected_issues
    \/ sample.metadata.detected_issues = <<>>

\* C23: whenever the compiler is invoked with no precomputed issue, also when
\* the orchestrator seeds it with nothing, it first looks for the missing
\* governing-law, dispute-resolution, termination and force-majeure clauses,
\* so that each missing clause has its remedy, and the list it returns is
\* never empty.
C23_SelfDetectionWhenNothingHanded ==
    ( Compiled /\ NothingHanded )
    => /\ Suggested # <<>>
       /\ output[1].total_issues_addressed
              = Cardinality({ i \in 1..Len(essential_clauses) :
                                ~re_search(essential_clauses[i].pattern,
                                           sample.doc) })
       /\ \A i \in 1..Len(essential_clauses) :
              ~re_search(essential_clauses[i].pattern, sample.doc)
              => \E k \in 1..Len(Suggested) :
                     Suggested[k].title
                         = "Mitigate Missing "
                               \o essential_clauses[i].clause_name
                               \o " Clause"

\* 0.6 x (fraction of the returned remedies that came from a template)
\* + 0.4 x min(1, issue_count / remedy_count)
RemedyBlend ==
    LET from_template ==
            Cardinality({ k \in 1..Len(Suggested) :
                            Suggested[k].template_id # "" })
        coverage ==
            IF Len(Handed) >= Len(Suggested) THEN Frac(1, 1)
            ELSE Frac(Len(Handed), Len(Suggested))
    IN  Plus(Times(Frac(6, 10), Frac(from_template, Len(Suggested))),
             Times(Frac(4, 10), coverage))

\* C24: the confidence score of every result the remedy compiler returns is
\* within [0.6, 0.95]: it is 0.6 x the fraction of returned remedies that
\* came from a template + 0.4 x min(1, issue_count / remedy_count), clamped
\* to that interval.
C24_RemedyConfidenceClamped ==
    Compiled
    => LET score == output[1].confidence_score
       IN  /\ ~Less(score, Frac(6, 10))
           /\ ~Less(Frac(95, 100), score)
           /\ score = IF Less(RemedyBlend, Frac(6, 10)) THEN Frac(6, 10)
                      ELSE IF Less(Frac(95, 100), RemedyBlend)
                           THEN Frac(95, 100)
                           ELSE RemedyBlend

C24_Witness ==
    /\ Compiled
    /\ Less(Frac(6, 10), output[1].confidence_score)
    /\ output[1].confidence_score = RemedyBlend

\* the issue's type has a remedy template or a risk-mitigation strategy
Remediable(issue) ==
    \/ issue.type \in _risk_mitigation_strategies
    \/ \E i \in 1..Len(_remedy_templates) :
           issue.type \in _remedy_templates[i].applicable_issues

\* C30: every issue handed to the compiler whose type has a template or a
\* strategy is addressed in what it returns: after deduplication some remedy
\* lists the issue's id in its applicable_issues, also when several issues
\* share a type or a title.
C30_EveryRemediableIssueAddressed ==
    Compiled
    => \A i \in 1..Len(Handed) :
           Remediable(Handed[i])
           => \E k \in 1..Len(Suggested) :
                  \E a \in 1..Len(Suggested[k].applicable_issues) :
                      Suggested[k].applicable_issues[a] = Handed[i].id

\* the successful outcome among the outcomes of a component
OkOf(outcomes) == CHOOSE o \in outcomes : o.state = "ok"

\* the trace tr holds the event ev of component comp
HappenedIn(tr, ev, comp) ==
    \E i \in 1..Len(tr) : tr[i].ev = ev /\ tr[i].comp = comp

\* the entries of analysis_results that follow from the text t of call c and
\* from which of its components succeeded according to its trace tr,
\* whatever the mode
EntriesFrom(c, t, tr) ==
    LET entry(n, outcomes) ==
            IF n \notin Enabled THEN Absent
            ELSE IF HappenedIn(tr, "ok", n) THEN OkOf(outcomes)
            ELSE NoneResult
        detection == entry("contradiction_detection", DetectorOutcomes(c, t))
    IN  [ classification |-> entry("classification", ClassifierOutcomes(t)),
          contradiction_detection |-> detection,
          remedy_generation |->
              entry("remedy_generation",
                    CompilerOutcomes(c, IF detection.state = "ok"
                                        THEN detection.issues ELSE <<>>)) ]

\* C25: the two modes are interchangeable: in either mode the step in which
\* a call that ran its components returns leaves the component entries, and
\* the classification, issues, remedies and overall confidence of the
\* returned result, that follow from its text and from which components
\* succeeded.
C25_ModesInterchangeable ==
    [][ \A c \in Calls :
            ( pc[c] # "returned" /\ pc'[c] = "returned" /\ RanToEnd(c)' )
            => /\ gathered'[c] = EntriesFrom(c, text'[c], trace'[c])
               /\ heap'[ret'[c]].classification =
                      IF HappenedIn(trace'[c], "ok", "classification")
                      THEN gathered'[c].classification.classification
                      ELSE NoClassification
               /\ heap'[ret'[c]].issues =
                      gathered'[c].contradiction_detection.issues
               /\ heap'[ret'[c]].remedies =
                      gathered'[c].remedy_generation.remedies
               /\ heap'[ret'[c]].confidence_score =
                      _calculate_overall_confidence(gathered'[c]) ]_vars

C25_Witness ==
    \E c \in Calls :
        /\ cfg.parallel_processing
        /\ RanToEnd(c) /\ pc[c] = "returned"
        /\ Happened(c, "fail", "classification")
        /\ Happened(c, "ok", "contradiction_detection")
        /\ Happened(c, "ok", "remedy_generation")
        /\ heap[ret[c]].issues # <<>>
        /\ Len(heap[ret[c]].remedies) = 4

\* C26: with caching disabled analyze leaves the cache alone: it stays
\* empty, no call is a cache hit or returns a result marked as cached, and
\* every call with a valid text runs each enabled component.
C26_CachingDisabledLeavesCacheAlone ==
    ~cfg.enable_caching
    => /\ cache = {}
       /\ \A c \in Calls :
              /\ ~Happened(c, "hit", "") /\ ~Happened(c, "store", "")
              /\ ret[c] # 0
                 => /\ ret[c] = c
                    /\ ~heap[ret[c]].metadata.cached_result
              /\ ( Ended(c) /\ ~Invalid(text[c]) )
                 => /\ pc[c] = "returned"
                    /\ \A n \in Enabled : Happened(c, "start", n)

C26_Witness ==
    /\ ~cfg.enable_caching
    /\ Enabled = Components
    /\ \E c1, c2 \in Calls :
           /\ Successive(c1, c2)
           /\ text[c1] = text[c2] /\ metadata[c1] = metadata[c2]
           /\ pc[c2] = "returned"
           /\ \A n \in Components : Happened(c2, "start", n)

\* call c leaves the lookup of lines 103-104 in this step
LooksUp(c) == pc[c] = "scheduled" /\ pc'[c] # "scheduled"

\* C27: the cache holds only results of analyses that finished: every entry
\* is the result, stored under the key of its text and metadata, of a call
\* that returned with status completed; a call that raised or was cancelled
\* leaves no entry; clear_cache leaves the cache empty, and a call that looks
\* up the emptied cache is a miss.
C27_CacheHoldsFinishedAnalysesOnly ==
    /\ [](\A e \in cache :
              /\ e[2] \in Calls
              /\ pc[e[2]] = "returned" /\ ret[e[2]] = e[2]
              /\ heap[e[2]].status = "completed"
              /\ e[1] = _generate_cache_key(text[e[2]], metadata[e[2]]))
    /\ [](\A c \in Calls :
              pc[c] \in {"raised", "cancelled"}
              => \A e \in cache : e[2] # c)
    /\ [][ clears' # clears => cache' = {} ]_vars
    /\ [][ \A c \in Calls :
               ( LooksUp(c) /\ cache = {} )
               => \A i \in 1..Len(trace'[c]) : trace'[c][i].ev # "hit" ]_vars

C27_Witness ==
    /\ cfg.enable_caching
    /\ clears = 1
    /\ \E c1, c2 \in Calls :
           /\ Successive(c1, c2)
           /\ text[c1] = text[c2] /\ metadata[c1] = metadata[c2]
           /\ pc[c2] = "returned"
           /\ Happened(c2, "miss", "")
           /\ cache = { << _generate_cache_key(text[c2], metadata[c2]), c2 >> }

\* call r is past the 'already processing' check and has not left the
\* analysis: it has set PROCESSING and awaits analyze
Analysing(r) == request[r].pc = "analyze"

\* C28: at most one analysis of a document is in progress at any time: of
\* the concurrent process_document calls for one document_id, at most one is
\* past the 'already processing' check and in analyze while the document is
\* PROCESSING; a call that has not passed the check by then is answered 409.
C28_OneAnalysisAtATime ==
    /\ \A r1, r2 \in Requests :
           ( /\ Analysing(r1) /\ Analysing(r2)
             /\ request[r1].document_id = request[r2].document_id )
           => r1 = r2
    /\ \A r \in Requests :
           Analysing(r) => document.processing_status = "processing"

\* C29: a document never stays in PROCESSING: every process_document call
\* that has set PROCESSING eventually sets COMPLETED or FAILED, whatever ends
\* the analysis (a result, a timeout, an error, a storage error, a
\* cancellation).
C29_ProcessingEventuallyEnds ==
    \A r \in Requests :
        (request[r].wrote = "processing")
            ~> (request[r].wrote \in {"completed", "failed"})

====
